---- MODULE Spec2Model ----
(***************************************************************************)
(* Streaming chat server (src/src/server.ts): a file-backed message log   *)
(* and session directory, the in-memory presence map onlineUsers, the     *)
(* socket.io gateway handlers and the asynchronous startAIStream runs.     *)
(*                                                                         *)
(* Node runs every handler and every stretch of code between two awaits   *)
(* to completion, so one action is one handler, or one stretch of         *)
(* startAIStream between two suspensions.                                  *)
(***************************************************************************)
EXTENDS Integers, Sequences, FiniteSets, TLC

(* ------------------------------ bounds -------------------------------- *)
MaxConns == 2
MaxRuns == 1
MaxEvents == 2
MaxClock == 1
MaxSessions == 1
SoloConns == 1
OverlapRuns == 2
ScenarioEvents == 6
StoredLen == 3
ReplayConns == 1

(* ------------------------------ inputs -------------------------------- *)
\* "" stands for a missing or empty payload field: both are falsy in the guards
Users == {"u1", "u2"}
Sessions == {"s1", "s2"}
Titles == {"", " ", "T"}
Texts == {"", "hi"}
Tools == {"get_weather"}
Deltas == {"", "a", "b"}
FinalTexts == {"", "F"}
\* the placeholder title of server.ts line 309 ("new session"), in ASCII
DefaultTitle == "new session"

\* Map.get() of an absent key, and an optional field that is not set
NoSocket == 0
Undefined == -1

VARIABLES
    messages,     \* data/messages.json: the sequence of Message records
    sessions,     \* data/sessions.json: the sequence of SessionItem records
    writes,       \* number of writeStore calls made on data/messages.json
    onlineUsers,  \* userId -> socket id, NoSocket when the key is absent
    sockets,      \* socket id -> [open, userId]: connected or not, and socket.data
                  \* (dropped with the socket when it disconnects)
    streams,      \* the startAIStream invocations, in the order they were started
    uuids,        \* number of ids drawn from crypto.randomUUID()
    reply,        \* what the gateway handler of the last step emitted on its socket
    calls         \* the calls the ai_send handler of the last step made, in their order

vars == <<messages, sessions, writes, onlineUsers, sockets, streams, uuids, reply, calls>>

(* --------------------------- pure helpers ----------------------------- *)
\* Array.prototype.sort with the comparator (a, b) => key(a) - key(b), given the key
\* of each element: ascending by key and stable, so an element lands after the
\* smaller ones and the earlier ties
SortBy(s, keys) ==
    LET n == Len(s)
        pos(i) == 1 + Cardinality({j \in 1..n :
                         \/ keys[j] < keys[i]
                         \/ keys[j] = keys[i] /\ j < i})
    IN  [p \in 1..n |-> s[CHOOSE i \in 1..n : pos(i) = p]]

Range(s) == {s[i] : i \in 1..Len(s)}

\* the values Date.now() can return. It reads the wall clock, which may be set back
\* between two handlers; the reads of one synchronous stretch of code return the
\* same value.
Times == 0..MaxClock

\* String.prototype.trim on the titles the model sends
Trim(title) == IF title = " " THEN "" ELSE title

(* --------------------------- message store ---------------------------- *)
\* a variant that writes the new record over the last one
addMessageOverLast(store, msg) ==
    IF store = <<>> THEN <<msg>> ELSE [store EXCEPT ![Len(store)] = msg]

\* addMessage: readStore, push, writeStore, all synchronous
addMessage(store, msg) == Append(store, msg)

\* a variant that keeps only the records it marks (filter where the code maps)
markMessagesDeliveredFilter(store, ids, now) ==
    LET hit(m) == m.id \in Range(ids) /\ ~m.delivered
        stamp(m) == [m EXCEPT !.delivered = TRUE, !.deliveredAt = now]
        kept == SelectSeq(store, hit)
    IN  [data |-> [i \in 1..Len(kept) |-> stamp(kept[i])],
         changed |-> kept # <<>>]

\* a variant without the `!m.delivered` test: it stamps delivered records again
markMessagesDeliveredRestamp(store, ids, now) ==
    IF ids = <<>> THEN [data |-> store, changed |-> FALSE]
    ELSE LET hit(m) == m.id \in Range(ids)
         IN  [data |-> [i \in 1..Len(store) |->
                          IF hit(store[i])
                          THEN [store[i] EXCEPT !.delivered = TRUE, !.deliveredAt = now]
                          ELSE store[i]],
              changed |-> \E i \in 1..Len(store) : hit(store[i])]

\* markMessagesDelivered: the new store contents and whether writeStore is called
markMessagesDelivered(store, ids, now) ==
    IF ids = <<>> THEN [data |-> store, changed |-> FALSE]
    ELSE LET hit(m) == m.id \in Range(ids) /\ ~m.delivered
             data == [i \in 1..Len(store) |->
                         IF hit(store[i])
                         THEN [store[i] EXCEPT !.delivered = TRUE, !.deliveredAt = now]
                         ELSE store[i]]
         IN  [data |-> data, changed |-> \E i \in 1..Len(store) : hit(store[i])]

getUndeliveredMessagesFor(store, userId) ==
    LET Keep(m) == m.to = userId /\ ~m.delivered IN SelectSeq(store, Keep)

\* a variant that replays the records in the order of the log
SessionMessagesUnsorted(store, userId, sessionId) ==
    LET Keep(m) == m.to = userId /\ m.sessionId = sessionId IN SelectSeq(store, Keep)

\* the query of the session_open handler
SessionMessages(store, userId, sessionId) ==
    LET Keep(m) == m.to = userId /\ m.sessionId = sessionId
        kept == SelectSeq(store, Keep)
    IN  SortBy(kept, [i \in 1..Len(kept) |-> kept[i].timestamp])

(* -------------------------- session directory ------------------------- *)
\* a variant that lists the oldest update first
getSessionsForUserAscending(dir, userId) ==
    LET Keep(s) == s.userId = userId
        kept == SelectSeq(dir, Keep)
    IN  SortBy(kept, [i \in 1..Len(kept) |-> kept[i].updatedAt])

getSessionsForUser(dir, userId) ==
    LET Keep(s) == s.userId = userId
        kept == SelectSeq(dir, Keep)
    IN  SortBy(kept, [i \in 1..Len(kept) |-> 0 - kept[i].updatedAt])

\* findIndex: the first index whose item has this id, 0 when there is none
FindIndex(dir, id) ==
    IF \E i \in 1..Len(dir) : dir[i].id = id
    THEN CHOOSE i \in 1..Len(dir) :
            dir[i].id = id /\ \A j \in 1..(i - 1) : dir[j].id # id
    ELSE 0

upsertSession(dir, item) ==
    LET idx == FindIndex(dir, item.id)
    IN  IF idx > 0 THEN [dir EXCEPT ![idx] = item] ELSE Append(dir, item)

(* ------------------------------ presence ------------------------------ *)
\* a variant without the guard: the entry goes whoever holds it
UnregisterUnguarded(online, userId, sid) ==
    IF userId # "" THEN [online EXCEPT ![userId] = NoSocket] ELSE online

\* the disconnect handler's guarded delete
Unregister(online, userId, sid) ==
    IF userId # "" /\ online[userId] = sid
    THEN [online EXCEPT ![userId] = NoSocket]
    ELSE online

\* a variant without the `if (sid)` test
EmitUnguarded(sent, sid, note) == Append(sent, [note EXCEPT !.to = sid])

\* a variant that puts the notification in front of the ones already sent
EmitInFront(sent, sid, note) ==
    IF sid # NoSocket THEN <<[note EXCEPT !.to = sid]>> \o sent ELSE sent

\* a variant that emits every notification twice
EmitTwice(sent, sid, note) ==
    IF sid # NoSocket
    THEN sent \o <<[note EXCEPT !.to = sid], [note EXCEPT !.to = sid]>>
    ELSE sent

\* io.to(sid).emit(...) behind `if (sid)`: appended to what the run has emitted
Emit(sent, sid, note) ==
    IF sid # NoSocket THEN Append(sent, [note EXCEPT !.to = sid]) ELSE sent

Note(type, id, sessionId, text) ==
    [to |-> NoSocket, type |-> type, id |-> id, sessionId |-> sessionId, text |-> text]

(* ------------------------------- Init --------------------------------- *)
Init ==
    /\ messages = <<>>
    /\ sessions = <<>>
    /\ writes = 0
    /\ onlineUsers = [u \in Users |-> NoSocket]
    /\ sockets = <<>>
    /\ streams = <<>>
    /\ uuids = 0
    /\ reply = <<>>
    /\ calls = <<>>


(* ------------------------------ gateway ------------------------------- *)
Open(c) == c \in 1..Len(sockets) /\ sockets[c].open

\* io.on("connection"): a new socket with a fresh id and empty socket.data
Connect ==
    /\ sockets' = Append(sockets, [open |-> TRUE, userId |-> ""])
    /\ reply' = <<>>
    /\ calls' = <<>>
    /\ UNCHANGED <<messages, sessions, writes, onlineUsers, streams, uuids>>

Answer(c, type, sessionId, items) ==
    [to |-> c, type |-> type, sessionId |-> sessionId, items |-> items]

\* a variant that marks what the user missed as delivered when the user registers
RegisterFlushes(c, userId) ==
    /\ Open(c)
    /\ IF userId = ""
       THEN /\ reply' = <<>>
            /\ UNCHANGED <<sockets, onlineUsers, messages, writes>>
       ELSE LET missed == getUndeliveredMessagesFor(messages, userId)
                marked == markMessagesDelivered(messages,
                              [i \in 1..Len(missed) |-> missed[i].id], 0)
            IN  /\ sockets' = [sockets EXCEPT ![c].userId = userId]
                /\ onlineUsers' = [onlineUsers EXCEPT ![userId] = c]
                /\ reply' = <<Answer(c, "session_list", "",
                                     getSessionsForUser(sessions, userId))>>
                /\ messages' = marked.data
                /\ writes' = writes + (IF marked.changed THEN 1 ELSE 0)
    /\ calls' = <<>>
    /\ UNCHANGED <<sessions, streams, uuids>>

Register(c, userId) ==
    /\ Open(c)
    /\ IF userId = ""
       THEN /\ reply' = <<>>
            /\ UNCHANGED <<sockets, onlineUsers>>
       ELSE /\ sockets' = [sockets EXCEPT ![c].userId = userId]
            /\ onlineUsers' = [onlineUsers EXCEPT ![userId] = c]
            /\ reply' = <<Answer(c, "session_list", "", getSessionsForUser(sessions, userId))>>
    /\ calls' = <<>>
    /\ UNCHANGED <<messages, sessions, writes, streams, uuids>>

\* Array.prototype.find on the user's sessions: <<item>> or <<>> for undefined
FindSession(dir, userId, sessionId) ==
    LET Is(s) == s.id = sessionId
        found == SelectSeq(getSessionsForUser(dir, userId), Is)
    IN  IF found = <<>> THEN <<>> ELSE <<Head(found)>>

SessionCreate(c, sessionId, title, now) ==
    /\ Open(c)
    /\ LET userId == sockets[c].userId
       IN  IF userId = "" \/ sessionId = ""
           THEN /\ reply' = <<>>
                /\ UNCHANGED <<sessions>>
           ELSE LET existing == FindSession(sessions, userId, sessionId)
                    item == [id |-> sessionId,
                             userId |-> userId,
                             title |-> IF title # "" /\ Trim(title) # "" THEN title
                                       ELSE IF existing # <<>> /\ existing[1].title # ""
                                            THEN existing[1].title
                                            ELSE DefaultTitle,
                             createdAt |-> IF existing # <<>> THEN existing[1].createdAt
                                           ELSE now,
                             updatedAt |-> now]
                IN  /\ sessions' = upsertSession(sessions, item)
                    /\ reply' = <<Answer(c, "session_list", "",
                                         getSessionsForUser(sessions', userId))>>
    /\ calls' = <<>>
    /\ UNCHANGED <<messages, writes, onlineUsers, sockets, streams, uuids>>

\* a variant that answers an intent without a session id
SessionOpenUnguarded(c, sessionId) ==
    /\ Open(c)
    /\ LET userId == sockets[c].userId
       IN  IF userId = ""
           THEN reply' = <<>>
           ELSE reply' = <<Answer(c, "session_messages", sessionId,
                                  SessionMessages(messages, userId, sessionId))>>
    /\ calls' = <<>>
    /\ UNCHANGED <<messages, sessions, writes, onlineUsers, sockets, streams, uuids>>

SessionOpen(c, sessionId) ==
    /\ Open(c)
    /\ LET userId == sockets[c].userId
       IN  IF userId = "" \/ sessionId = ""
           THEN reply' = <<>>
           ELSE reply' = <<Answer(c, "session_messages", sessionId,
                                  SessionMessages(messages, userId, sessionId))>>
    /\ calls' = <<>>
    /\ UNCHANGED <<messages, sessions, writes, onlineUsers, sockets, streams, uuids>>

\* a variant that gives up the runs of the user who disconnects
DisconnectAborts(c) ==
    /\ Open(c)
    /\ sockets' = [sockets EXCEPT ![c] = [open |-> FALSE, userId |-> ""]]
    /\ onlineUsers' = Unregister(onlineUsers, sockets[c].userId, c)
    /\ streams' = [r \in 1..Len(streams) |->
                     IF streams[r].userId = sockets[c].userId
                        /\ streams[r].pc \in {"invoking", "streaming", "resolving"}
                     THEN [streams[r] EXCEPT !.pc = "failed", !.done = TRUE]
                     ELSE streams[r]]
    /\ reply' = <<>>
    /\ calls' = <<>>
    /\ UNCHANGED <<messages, sessions, writes, uuids>>

Disconnect(c) ==
    /\ Open(c)
    /\ sockets' = [sockets EXCEPT ![c] = [open |-> FALSE, userId |-> ""]]
    /\ onlineUsers' = Unregister(onlineUsers, sockets[c].userId, c)
    /\ reply' = <<>>
    /\ calls' = <<>>
    /\ UNCHANGED <<messages, sessions, writes, streams, uuids>>

(* ---------------------------- startAIStream --------------------------- *)
Msg(id, to, sessionId, timestamp, delivered, deliveredAt, role, type, content) ==
    [id |-> id, to |-> to, sessionId |-> sessionId, timestamp |-> timestamp,
     delivered |-> delivered, deliveredAt |-> deliveredAt, role |-> role,
     message |-> [type |-> type, content |-> content]]

\* the code up to the first await: the artifact id, the lookup and ai_started
StartRun(online, userId, sessionId, input, messageId) ==
    LET sid == online[userId]
    IN  [userId |-> userId, sessionId |-> sessionId, input |-> input,
         messageId |-> messageId, pc |-> "invoking", textSoFar |-> "", done |-> FALSE,
         events |-> <<>>, made |-> <<>>,
         present |-> sid # NoSocket, absent |-> sid = NoSocket,
         sent |-> Emit(<<>>, sid, Note("ai_started", messageId, sessionId, ""))]

\* ai_send: append the user's message, call startAIStream, then bump the session
AiSend(c, sessionId, text, now) ==
    /\ Open(c)
    /\ LET from == sockets[c].userId
       IN  IF from = "" \/ text = "" \/ sessionId = ""
           THEN /\ calls' = <<>>
                /\ UNCHANGED <<messages, sessions, writes, streams, uuids>>
           ELSE LET userMsg == Msg(uuids + 1, from, sessionId, now, TRUE, now,
                                   "user", "text", text)
                    target == FindSession(sessions, from, sessionId)
                IN  /\ messages' = addMessage(messages, userMsg)
                    /\ writes' = writes + 1
                    /\ streams' = Append(streams,
                                    StartRun(onlineUsers, from, sessionId, text, uuids + 2))
                    /\ uuids' = uuids + 2
                    /\ IF target # <<>>
                       THEN /\ sessions' = upsertSession(sessions,
                                              [target[1] EXCEPT !.updatedAt = now])
                            /\ calls' = <<"addMessage", "startAIStream", "upsertSession">>
                       ELSE /\ sessions' = sessions
                            /\ calls' = <<"addMessage", "startAIStream">>
    /\ reply' = <<>>
    /\ UNCHANGED <<onlineUsers, sockets>>

\* a typed event of response.fullStream
Event(type, arg) == [type |-> type, arg |-> arg]

Streaming(r) == r \in 1..Len(streams) /\ streams[r].pc = "streaming"

RECURSIVE EventsIn(_)
EventsIn(runs) == IF runs = <<>> THEN 0 ELSE Len(Head(runs).events) + EventsIn(Tail(runs))

\* await agent.streamText(input) resolves
EngineReturns(r) ==
    /\ r \in 1..Len(streams)
    /\ streams[r].pc = "invoking"
    /\ streams' = [streams EXCEPT ![r].pc = "streaming"]
    /\ reply' = <<>>
    /\ calls' = <<>>
    /\ UNCHANGED <<messages, sessions, writes, onlineUsers, sockets, uuids>>

\* a variant whose catch block saves the text received so far
EngineThrowsSaves(r) ==
    /\ r \in 1..Len(streams)
    /\ streams[r].pc \in {"invoking", "streaming", "resolving"}
    /\ streams' = [streams EXCEPT ![r].pc = "failed", ![r].done = TRUE]
    /\ messages' = addMessage(messages,
                      Msg(streams[r].messageId, streams[r].userId, streams[r].sessionId,
                          0, FALSE, Undefined, "ai", "text", streams[r].textSoFar))
    /\ writes' = writes + 1
    /\ reply' = <<>>
    /\ calls' = <<>>
    /\ UNCHANGED <<sessions, onlineUsers, sockets, uuids>>

\* agent.streamText, the feed or response.text rejects: the catch block
EngineThrows(r) ==
    /\ r \in 1..Len(streams)
    /\ streams[r].pc \in {"invoking", "streaming", "resolving"}
    /\ streams' = [streams EXCEPT ![r].pc = "failed", ![r].done = TRUE]
    /\ reply' = <<>>
    /\ calls' = <<>>
    /\ UNCHANGED <<messages, sessions, writes, onlineUsers, sockets, uuids>>

\* a variant that buffers a delta only when it forwards it
TextDeltaForwardedOnly(r, delta) ==
    LET run == streams[r]
        sid == onlineUsers[run.userId]
        seen == [run EXCEPT !.events = Append(@, Event("text-delta", delta)),
                            !.present = @ /\ sid # NoSocket,
                            !.absent = @ /\ sid = NoSocket]
    IN  /\ Streaming(r)
        /\ IF ~run.done /\ delta # "" /\ sid # NoSocket
           THEN streams' = [streams EXCEPT ![r] =
                    [seen EXCEPT !.textSoFar = @ \o delta,
                                 !.sent = Emit(@, sid, Note("ai_chunk", run.messageId,
                                                            run.sessionId, delta))]]
           ELSE streams' = [streams EXCEPT ![r] = seen]
        /\ reply' = <<>>
        /\ calls' = <<>>
        /\ UNCHANGED <<messages, sessions, writes, onlineUsers, sockets, uuids>>

\* a variant that forwards the whole buffer instead of the delta
TextDeltaMerged(r, delta) ==
    LET run == streams[r]
        sid == onlineUsers[run.userId]
        seen == [run EXCEPT !.events = Append(@, Event("text-delta", delta)),
                            !.present = @ /\ sid # NoSocket,
                            !.absent = @ /\ sid = NoSocket]
    IN  /\ Streaming(r)
        /\ IF ~run.done /\ delta # ""
           THEN streams' = [streams EXCEPT ![r] =
                    [seen EXCEPT !.textSoFar = @ \o delta,
                                 !.sent = Emit(@, sid, Note("ai_chunk", run.messageId,
                                                  run.sessionId, run.textSoFar \o delta))]]
           ELSE streams' = [streams EXCEPT ![r] = seen]
        /\ reply' = <<>>
        /\ calls' = <<>>
        /\ UNCHANGED <<messages, sessions, writes, onlineUsers, sockets, uuids>>

\* one text-delta event of the feed
TextDelta(r, delta) ==
    LET run == streams[r]
        sid == onlineUsers[run.userId]
        seen == [run EXCEPT !.events = Append(@, Event("text-delta", delta)),
                            !.present = @ /\ sid # NoSocket,
                            !.absent = @ /\ sid = NoSocket]
    IN  /\ Streaming(r)
        /\ IF ~run.done /\ delta # ""
           THEN streams' = [streams EXCEPT ![r] =
                    [seen EXCEPT !.textSoFar = @ \o delta,
                                 !.sent = Emit(@, sid, Note("ai_chunk", run.messageId,
                                                            run.sessionId, delta))]]
           ELSE streams' = [streams EXCEPT ![r] = seen]
        /\ reply' = <<>>
        /\ calls' = <<>>
        /\ UNCHANGED <<messages, sessions, writes, onlineUsers, sockets, uuids>>

\* a variant that emits the notification and leaves the record as it was appended
ToolEventUnmarked(r, type, toolName, now) ==
    LET run == streams[r]
        sid == onlineUsers[run.userId]
        id == uuids + 1
        body == IF type = "tool-call" THEN "tool_use" ELSE "tool_result"
        wire == IF type = "tool-call" THEN "ai_tool_call" ELSE "ai_tool_result"
    IN  /\ Streaming(r)
        /\ uuids' = id
        /\ streams' = [streams EXCEPT ![r] =
              [run EXCEPT !.events = Append(@, Event(type, toolName)),
                          !.present = @ /\ sid # NoSocket,
                          !.absent = @ /\ sid = NoSocket,
                          !.made = Append(@, id),
                          !.sent = Emit(@, sid, Note(wire, 0, run.sessionId, toolName))]]
        /\ messages' = addMessage(messages,
                           Msg(id, run.userId, run.sessionId, now, FALSE, Undefined,
                               "system", body, toolName))
        /\ writes' = writes + 1
        /\ reply' = <<>>
        /\ calls' = <<>>
        /\ UNCHANGED <<sessions, onlineUsers, sockets>>

\* one tool-call or tool-result event: append the record, then emit and mark it
ToolEvent(r, type, toolName, now) ==
    LET run == streams[r]
        sid == onlineUsers[run.userId]
        id == uuids + 1
        body == IF type = "tool-call" THEN "tool_use" ELSE "tool_result"
        wire == IF type = "tool-call" THEN "ai_tool_call" ELSE "ai_tool_result"
        toolMsg == Msg(id, run.userId, run.sessionId, now, FALSE, Undefined,
                       "system", body, toolName)
        added == addMessage(messages, toolMsg)
        marked == markMessagesDelivered(added, <<id>>, now)
    IN  /\ Streaming(r)
        /\ uuids' = id
        /\ streams' = [streams EXCEPT ![r] =
              [run EXCEPT !.events = Append(@, Event(type, toolName)),
                          !.present = @ /\ sid # NoSocket,
                          !.absent = @ /\ sid = NoSocket,
                          !.made = Append(@, id),
                          !.sent = Emit(@, sid, Note(wire, 0, run.sessionId, toolName))]]
        /\ IF sid # NoSocket
           THEN /\ messages' = marked.data
                /\ writes' = writes + 1 + (IF marked.changed THEN 1 ELSE 0)
           ELSE /\ messages' = added
                /\ writes' = writes + 1
        /\ reply' = <<>>
        /\ calls' = <<>>
        /\ UNCHANGED <<sessions, onlineUsers, sockets>>

\* a finish event: nothing happens
Finish(r) ==
    /\ Streaming(r)
    /\ streams' = [streams EXCEPT
                     ![r].events = Append(@, Event("finish", "")),
                     ![r].present = @ /\ onlineUsers[streams[r].userId] # NoSocket,
                     ![r].absent = @ /\ onlineUsers[streams[r].userId] = NoSocket]
    /\ reply' = <<>>
    /\ calls' = <<>>
    /\ UNCHANGED <<messages, sessions, writes, onlineUsers, sockets, uuids>>

\* the feed is exhausted: the loop ends and the run awaits response.text
FeedEnd(r) ==
    /\ Streaming(r)
    /\ streams' = [streams EXCEPT ![r].pc = "resolving"]
    /\ reply' = <<>>
    /\ calls' = <<>>
    /\ UNCHANGED <<messages, sessions, writes, onlineUsers, sockets, uuids>>

\* a variant that draws a new id for the final record, as the tool records do
FinalMessageFreshId(run, text, now) ==
    Msg(0 - run.messageId, run.userId, run.sessionId, now, FALSE, Undefined,
        "ai", "text", text)

\* finalMsg: the one ai record of a run, under the id allocated at the start
FinalMessage(run, text, now) ==
    Msg(run.messageId, run.userId, run.sessionId, now, FALSE, Undefined,
        "ai", "text", text)

\* response.text resolves: persist the final message, then emit and mark it
Finalize(r, finalText, now) ==
    LET run == streams[r]
        sid == onlineUsers[run.userId]
        text == IF finalText # "" THEN finalText ELSE run.textSoFar
        finalMsg == FinalMessage(run, text, now)
        added == addMessage(messages, finalMsg)
        marked == markMessagesDelivered(added, <<run.messageId>>, now)
    IN  /\ r \in 1..Len(streams)
        /\ run.pc = "resolving"
        /\ streams' = [streams EXCEPT ![r] =
              [run EXCEPT !.pc = "finished",
                          !.textSoFar = text,
                          !.done = TRUE,
                          !.present = @ /\ sid # NoSocket,
                          !.absent = @ /\ sid = NoSocket,
                          !.made = Append(@, run.messageId),
                          !.sent = Emit(@, sid, Note("ai_complete", run.messageId,
                                                     run.sessionId, text))]]
        /\ IF sid # NoSocket
           THEN /\ messages' = marked.data
                /\ writes' = writes + 1 + (IF marked.changed THEN 1 ELSE 0)
           ELSE /\ messages' = added
                /\ writes' = writes + 1
        /\ reply' = <<>>
        /\ calls' = <<>>
        /\ UNCHANGED <<sessions, onlineUsers, sockets, uuids>>

\* The feed of the README's scenario: the agent calls a tool, gets its result,
\* streams one or more non-empty text deltas and finishes.
Scripted(seen, event) ==
    LET n == Len(seen)
    IN  CASE n = 0 -> event.type = "tool-call"
          [] n = 1 -> event.type = "tool-result" /\ event.arg = seen[1].arg
          [] OTHER ->
                /\ seen[n].type # "finish"
                /\ \/ event.type = "text-delta" /\ event.arg # ""
                   \/ event.type = "finish" /\ seen[n].type = "text-delta"

\* the parts the engine may yield next: any part, or the next part of the script
Yields(scripted, seen, event) == scripted => Scripted(seen, event)

(* ------------------------------- Next --------------------------------- *)
\* One step of the server. The environment: user ids in `users` and session ids in
\* `ids` (and "" for a missing field), at most `conns` connections ever made, `items`
\* sessions in the directory, `runs` invocations of startAIStream and `events` feed
\* events over all of them, Date.now() in `times`, and an engine whose feed is any
\* sequence of parts or, if `scripted`, follows the script.
System(users, ids, conns, items, runs, events, times, scripted) ==
    \/ Len(sockets) < conns /\ Connect
    \/ \E c \in 1..conns, userId \in users \cup {""} : Register(c, userId)
    \/ \E c \in 1..conns, sessionId \in ids \cup {""}, title \in Titles, now \in times :
          /\ FindIndex(sessions, sessionId) > 0 \/ Len(sessions) < items
          /\ SessionCreate(c, sessionId, title, now)
    \/ \E c \in 1..conns, sessionId \in ids \cup {""} : SessionOpen(c, sessionId)
    \/ \E c \in 1..conns, sessionId \in ids \cup {""}, text \in Texts, now \in times :
          Len(streams) < runs /\ AiSend(c, sessionId, text, now)
    \/ \E c \in 1..conns : Disconnect(c)
    \/ \E r \in 1..runs : EngineReturns(r)
    \/ \E r \in 1..runs : EngineThrows(r)
    \/ \E r \in 1..runs, delta \in Deltas :
          /\ EventsIn(streams) < events
          /\ Streaming(r) /\ Yields(scripted, streams[r].events, Event("text-delta", delta))
          /\ TextDelta(r, delta)
    \/ \E r \in 1..runs, type \in {"tool-call", "tool-result"}, toolName \in Tools,
          now \in times :
          /\ EventsIn(streams) < events
          /\ Streaming(r) /\ Yields(scripted, streams[r].events, Event(type, toolName))
          /\ ToolEvent(r, type, toolName, now)
    \/ \E r \in 1..runs :
          /\ EventsIn(streams) < events
          /\ Streaming(r) /\ Yields(scripted, streams[r].events, Event("finish", ""))
          /\ Finish(r)
    \/ \E r \in 1..runs : FeedEnd(r)
    \/ \E r \in 1..runs, finalText \in FinalTexts, now \in times :
          Finalize(r, finalText, now)

\* A fresh installation, one user and one session id, one invocation at a time.
Next == System({"u1"}, {"s1"}, MaxConns, MaxSessions, MaxRuns, MaxEvents, {0}, FALSE)

Spec == Init /\ [][Next]_vars

\* Overlapping invocations: one connection, several runs in flight at once for the
\* same user and session.
OverlapNext ==
    System({"u1"}, {"s1"}, SoloConns, MaxSessions, OverlapRuns, MaxEvents, {0}, FALSE)

SpecOverlap == Init /\ [][OverlapNext]_vars

\* The scenario of the README, whose feed may stop early or fail.
ScenarioNext ==
    System({"u1"}, {"s1"}, SoloConns, MaxSessions, MaxRuns, ScenarioEvents, {0}, TRUE)

SpecScenario == Init /\ [][ScenarioNext]_vars

\* Two users: one connection that may register as either of them, in turn, and one
\* session id that both may use.
SharedNext ==
    System(Users, {"s1"}, SoloConns, MaxSessions, MaxRuns, MaxEvents, {0}, FALSE)

SpecShared == Init /\ [][SharedNext]_vars

\* The session directory: two users on connections of their own, two session ids
\* and a wall clock that moves; nobody sends.
DirectoryNext ==
    \/ Len(sockets) < MaxConns /\ Connect
    \/ \E c \in 1..MaxConns, userId \in Users \cup {""} : Register(c, userId)
    \/ \E c \in 1..MaxConns, sessionId \in Sessions \cup {""}, title \in Titles,
          now \in Times : SessionCreate(c, sessionId, title, now)
    \/ \E c \in 1..MaxConns : Disconnect(c)

SpecDirectory == Init /\ [][DirectoryNext]_vars

\* A restart on the files an earlier run of the server left: the logs of at most n
\* records, where a system or ai record follows a user message of the same user and
\* session (ai_send appends it before it starts the run), a user message is
\* delivered when written, and a marked record carries its stamp.
StoredRecords(log) ==
    LET id == Len(log) + 1
        asked == {p \in Users \X Sessions : \E i \in 1..Len(log) :
                     log[i].role = "user" /\ log[i].to = p[1] /\ log[i].sessionId = p[2]}
        kinds == {<<"system", "tool_use", "get_weather">>, <<"ai", "text", "F">>}
    IN  {Msg(id, p[1], p[2], t, TRUE, t, "user", "text", "hi") :
            p \in Users \X Sessions, t \in Times}
        \cup
        {Msg(id, p[1], p[2], t, d, IF d THEN t ELSE Undefined, k[1], k[2], k[3]) :
            p \in asked, t \in Times, d \in BOOLEAN, k \in kinds}

RECURSIVE StoredLogs(_)
StoredLogs(n) ==
    IF n = 0 THEN {<<>>}
    ELSE LET shorter == StoredLogs(n - 1)
         IN  shorter \cup
             UNION {{Append(log, m) : m \in StoredRecords(log)} :
                      log \in {l \in shorter : Len(l) = n - 1}}

RestartInit ==
    /\ messages \in StoredLogs(StoredLen)
    /\ sessions = <<>>
    /\ writes = 0
    /\ onlineUsers = [u \in Users |-> NoSocket]
    /\ sockets = <<>>
    /\ streams = <<>>
    /\ uuids = Len(messages)
    /\ reply = <<>>
    /\ calls = <<>>

\* Clients that only look: they connect, register, open sessions and leave.
ReplayNext ==
    \/ Len(sockets) < ReplayConns /\ Connect
    \/ \E c \in 1..ReplayConns, userId \in Users \cup {""} : Register(c, userId)
    \/ \E c \in 1..ReplayConns, sessionId \in Sessions \cup {""} : SessionOpen(c, sessionId)
    \/ \E c \in 1..ReplayConns : Disconnect(c)

SpecReplay == RestartInit /\ [][ReplayNext]_vars

\* ids a caller may pass to markMessagesDelivered: none, one or two of them, known
\* to the log or not
IdLists ==
    LET known == 1..(StoredLen + 1)
    IN  {<<>>} \cup {<<i>> : i \in known} \cup {<<i, j>> : i, j \in known}

\* a call of markMessagesDelivered(ids)
MarkDelivered(ids, now) ==
    LET marked == markMessagesDelivered(messages, ids, now)
    IN  /\ messages' = marked.data
        /\ writes' = writes + (IF marked.changed THEN 1 ELSE 0)
        /\ reply' = <<>>
        /\ calls' = <<>>
        /\ UNCHANGED <<sessions, onlineUsers, sockets, streams, uuids>>

MarkNext == \E ids \in IdLists, now \in Times : MarkDelivered(ids, now)

SpecMark == RestartInit /\ [][MarkNext]_vars

(* ----------------------- what the claims speak of ---------------------- *)
RunIds == 1..Len(streams)

\* the positions of the log that hold a record with this id
Stored(id) == {i \in 1..Len(messages) : messages[i].id = id}

IsToolEvent(e) == e.type \in {"tool-call", "tool-result"}
ToolEvents(run) == SelectSeq(run.events, IsToolEvent)

\* the ids of the tool records a run appended, in order
ToolIds(run) == LET NotFinal(id) == id # run.messageId IN SelectSeq(run.made, NotFinal)

\* the k-th tool event of the run has its system record in the log, once
ToolRecordKept(run, k) ==
    LET e == ToolEvents(run)[k]
        at == Stored(ToolIds(run)[k])
    IN  /\ Cardinality(at) = 1
        /\ \A i \in at :
              /\ messages[i].role = "system"
              /\ messages[i].to = run.userId
              /\ messages[i].sessionId = run.sessionId
              /\ messages[i].message =
                    [type |-> IF e.type = "tool-call" THEN "tool_use" ELSE "tool_result",
                     content |-> e.arg]

ToolRecordsKept(run) ==
    /\ Len(ToolIds(run)) = Len(ToolEvents(run))
    /\ \A k \in 1..Len(ToolEvents(run)) : ToolRecordKept(run, k)

\* the run's final ai record is in the log, once, under the artifact id
FinalRecordKept(run) ==
    /\ Cardinality(Stored(run.messageId)) = 1
    /\ \A i \in Stored(run.messageId) :
          /\ messages[i].role = "ai"
          /\ messages[i].to = run.userId
          /\ messages[i].sessionId = run.sessionId
          /\ messages[i].message.type = "text"

Flags(ids) == {messages[i].delivered : i \in UNION {Stored(id) : id \in Range(ids)}}

(* -------------------------------- C1 ---------------------------------- *)
\* C1: a run whose user had no presence entry at any of its steps so far has emitted
\* no notification, has one system record in the log for each tool-call and
\* tool-result event it received and, once finished, its final ai record; all of
\* them have delivered = FALSE.
C1_OfflineRunIsSilentAndPersisted ==
    \A r \in RunIds :
        LET run == streams[r]
        IN  run.absent =>
              /\ run.sent = <<>>
              /\ ToolRecordsKept(run)
              /\ run.pc = "finished" => FinalRecordKept(run)
              /\ Flags(run.made) \subseteq {FALSE}

C1_Witness ==
    \E r \in RunIds :
        /\ streams[r].absent
        /\ streams[r].pc = "finished"
        /\ ToolEvents(streams[r]) # <<>>
        /\ \E k \in 1..Len(streams[r].events) :
              streams[r].events[k].type = "text-delta" /\ streams[r].events[k].arg # ""

(* -------------------------------- C2 ---------------------------------- *)
ReplayOf(run) ==
    {a \in Range(reply) :
        /\ a.type = "session_messages"
        /\ a.sessionId = run.sessionId
        /\ sockets[a.to].userId = run.userId}

C2_RunKeepsItsRecords ==
    \A r \in RunIds :
        LET run == streams[r]
        IN  /\ ToolRecordsKept(run)
            /\ run.pc = "finished" =>
                  /\ FinalRecordKept(run)
                  /\ \A a \in ReplayOf(run) : \A id \in Range(run.made) :
                        \E k \in 1..Len(a.items) : a.items[k].id = id

C2_DisconnectLeavesRuns ==
    /\ (\E c \in 1..Len(sockets) : sockets[c].open /\ ~sockets'[c].open) =>
          streams' = streams /\ messages' = messages
    /\ \A r \in RunIds : streams[r].pc = "finished" => streams'[r] = streams[r]

\* C2: a step that disconnects a socket changes no run and no record; every run has
\* its tool records in the log and, once finished, its final ai record; a
\* session_messages reply to the run's user for the run's session holds all the
\* records of a finished run; and a finished run emits nothing more (no ai_chunk
\* reaches a connection made later).
C2_DisconnectDoesNotStopRun ==
    [] C2_RunKeepsItsRecords /\ [][C2_DisconnectLeavesRuns]_vars

\* the user got ai_started, was gone for the tool event and the end of the run, and
\* then opens the session on another connection
C2_Witness ==
    \E r \in RunIds :
        /\ streams[r].pc = "finished"
        /\ ToolEvents(streams[r]) # <<>>
        /\ Len(streams[r].sent) = 1
        /\ streams[r].sent[1].type = "ai_started"
        /\ \E a \in ReplayOf(streams[r]) :
              a.to # streams[r].sent[1].to /\ Len(a.items) >= 3

(* -------------------------------- C3 ---------------------------------- *)
AiRecords == {i \in 1..Len(messages) : messages[i].role = "ai"}

\* C3: a finished run has exactly one ai record in the log, a text record whose id is
\* the artifact id that its ai_started and ai_complete carry; a run that is not
\* finished has none, and the log holds no ai record besides those of finished runs.
C3_OneFinalRecordPerRun ==
    /\ \A r \in RunIds :
          LET run == streams[r]
          IN  /\ Cardinality(Stored(run.messageId) \cap AiRecords) =
                    (IF run.pc = "finished" THEN 1 ELSE 0)
              /\ \A k \in 1..Len(run.sent) :
                    run.sent[k].type \in {"ai_started", "ai_complete"} =>
                       run.sent[k].id = run.messageId
    /\ \A i \in AiRecords : messages[i].message.type = "text"
    /\ Cardinality(AiRecords) = Cardinality({r \in RunIds : streams[r].pc = "finished"})

C3_Witness ==
    \E r \in RunIds :
        /\ streams[r].pc = "finished"
        /\ \E k \in 1..Len(streams[r].sent) : streams[r].sent[k].type = "ai_started"
        /\ \E k \in 1..Len(streams[r].sent) : streams[r].sent[k].type = "ai_complete"
        /\ ToolEvents(streams[r]) # <<>>

(* -------------------------------- C4 ---------------------------------- *)
DistinctIds == \A i, j \in 1..Len(messages) : messages[i].id = messages[j].id => i = j

KeptAsIs(m, n) ==
    /\ n.id = m.id /\ n.to = m.to /\ n.sessionId = m.sessionId
    /\ n.timestamp = m.timestamp /\ n.role = m.role /\ n.message = m.message
    /\ m.delivered => n.delivered

\* C4: no step removes a record or changes its id, to, sessionId, timestamp, role or
\* body, delivered never goes back to FALSE, and the ids of the log are distinct.
C4_AppendOnly ==
    /\ [] DistinctIds
    /\ [][/\ Len(messages') >= Len(messages)
          /\ \A i \in 1..Len(messages) : KeptAsIs(messages[i], messages'[i])]_vars

\* a record written while the user was away stays unmarked while a later one is marked
C4_Witness ==
    /\ Len(messages) >= 4
    /\ \E i, j \in 1..Len(messages) :
          /\ i < j
          /\ messages[i].role = "system" /\ ~messages[i].delivered
          /\ messages[j].role = "ai" /\ messages[j].delivered

(* -------------------------------- C5 ---------------------------------- *)
Closes(c) == sockets[c].open /\ ~sockets'[c].open

\* what run r had emitted before the step (nothing when the step starts it)
SentBefore(r) == IF r <= Len(streams) THEN streams[r].sent ELSE <<>>

C5_GuardedUnregister ==
    \A c \in 1..Len(sockets) : Closes(c) =>
        \A u \in Users :
            IF onlineUsers[u] = c /\ sockets[c].userId = u
            THEN onlineUsers'[u] = NoSocket
            ELSE onlineUsers'[u] = onlineUsers[u]

C5_LastRegistrationWins ==
    \A c \in 1..Len(sockets) :
        (sockets'[c].open /\ sockets'[c].userId # sockets[c].userId) =>
            onlineUsers'[sockets'[c].userId] = c

C5_EmitsToCurrentEntry ==
    \A r \in 1..Len(streams') :
        LET old == SentBefore(r)
            new == streams'[r].sent
        IN  new # old =>
              /\ Len(new) = Len(old) + 1
              /\ SubSeq(new, 1, Len(old)) = old
              /\ onlineUsers[streams'[r].userId] # NoSocket
              /\ new[Len(new)].to = onlineUsers[streams'[r].userId]

\* C5: a disconnect of connection c removes the entry of user u exactly when the
\* entry holds c and c is registered as u, and changes no other entry (so the
\* disconnect of an older connection leaves the entry of the newer one); a
\* registration makes the entry point at the registering connection; and a run's
\* notification goes to the connection the entry holds when it is emitted.
C5_StaleDisconnectKeepsNewerEntry ==
    [][C5_GuardedUnregister /\ C5_LastRegistrationWins /\ C5_EmitsToCurrentEntry]_vars

\* connection 1 got ai_started, connection 2 registered and got a later notification,
\* connection 1 is gone and the entry still holds connection 2
C5_Witness ==
    /\ Len(sockets) = 2
    /\ ~sockets[1].open
    /\ sockets[2].open /\ sockets[2].userId = "u1"
    /\ onlineUsers["u1"] = 2
    /\ \E r \in RunIds :
          /\ streams[r].pc = "finished"
          /\ Len(streams[r].sent) >= 3
          /\ streams[r].sent[1].to = 1
          /\ streams[r].sent[2].to = 2
          /\ streams[r].sent[Len(streams[r].sent)].to = 2

(* -------------------------------- C6 ---------------------------------- *)
RECURSIVE MadeBy(_)
MadeBy(runs) == IF runs = <<>> THEN 0 ELSE Len(Head(runs).made) + MadeBy(Tail(runs))

\* C6: whatever the interleaving of the ai_send handlers and the runs, the log holds
\* one record for every append issued (one user message per invocation and every
\* record a run has made), each exactly once, under distinct ids, and every append
\* was one write of the store.
C6_NoAppendLost ==
    /\ Len(messages) = Len(streams) + MadeBy(streams)
    /\ DistinctIds
    /\ \A r \in RunIds :
          /\ \A id \in Range(streams[r].made) : Cardinality(Stored(id)) = 1
          /\ \E i \in 1..Len(messages) :
                /\ messages[i].role = "user"
                /\ messages[i].id = streams[r].messageId - 1
    /\ writes >= Len(messages)

\* two finished runs whose records are interleaved in the log
C6_Witness ==
    /\ Len(streams) >= 2
    /\ \A r \in RunIds : streams[r].pc = "finished"
    /\ \E i, j, k \in 1..Len(messages) :
          /\ i < j /\ j < k
          /\ messages[i].id \in Range(streams[2].made)
          /\ messages[j].id \in Range(streams[1].made)
          /\ messages[k].id \in Range(streams[2].made)
          /\ messages[i].delivered /\ messages[j].delivered

(* -------------------------------- C10 --------------------------------- *)
C10_FailedRunLeavesNoArtifact ==
    \A r \in RunIds :
        LET run == streams[r]
        IN  run.pc = "failed" =>
              /\ Stored(run.messageId) = {}
              /\ \A k \in 1..Len(run.sent) : run.sent[k].type # "ai_complete"
              /\ ToolRecordsKept(run)

C10_ErrorStopsOnlyThatRun ==
    \A r \in RunIds :
        /\ streams[r].pc = "failed" => streams'[r] = streams[r]
        /\ (streams[r].pc # "failed" /\ streams'[r].pc = "failed") =>
              /\ streams'[r].sent = streams[r].sent
              /\ streams'[r].made = streams[r].made
              /\ \A q \in RunIds \ {r} : streams'[q] = streams[q]
              /\ Len(streams') = Len(streams)
              /\ UNCHANGED <<messages, sessions, writes, onlineUsers, sockets>>

\* C10: a run whose engine call, feed or final text raises ends failed: the log never
\* holds a record under its artifact id, it has emitted no ai_complete and emits
\* nothing after the error, its tool records stay in the log, and the step that fails
\* it changes no other run, no record and nothing of the gateway's state.
C10_EngineErrorAbortsRun ==
    [] C10_FailedRunLeavesNoArtifact /\ [][C10_ErrorStopsOnlyThatRun]_vars

\* a run failed after a tool record and a notification, and another run finished
C10_Witness ==
    \E r, q \in RunIds :
        /\ streams[r].pc = "failed"
        /\ ToolEvents(streams[r]) # <<>>
        /\ streams[r].sent # <<>>
        /\ streams[q].pc = "finished"
        /\ \E i, j \in 1..Len(messages) :
              /\ i < j
              /\ messages[i].id \in Range(streams[r].made)
              /\ messages[j].id = streams[q].messageId

(* -------------------------------- C7 ---------------------------------- *)
Replays == {a \in Range(reply) : a.type = "session_messages"}

\* the positions of the log that hold the records of this user and session
Matching(userId, sessionId) ==
    {i \in 1..Len(messages) :
        messages[i].to = userId /\ messages[i].sessionId = sessionId}

\* C7: the session_messages a registered connection gets for a session id holds
\* exactly the records of the log whose `to` is the connection's user and whose
\* sessionId is that id, each once, delivered or not, in non-decreasing timestamp
\* order.
C7_ReplayIsTheSessionOfTheUser ==
    \A a \in Replays :
        LET mine == Matching(sockets[a.to].userId, a.sessionId)
        IN  /\ Len(a.items) = Cardinality(mine)
            /\ \A i \in mine : \E k \in 1..Len(a.items) : a.items[k] = messages[i]
            /\ \A k \in 1..Len(a.items) : \E i \in mine : a.items[k] = messages[i]
            /\ \A k \in 1..(Len(a.items) - 1) :
                  a.items[k].timestamp <= a.items[k + 1].timestamp

\* a replay that leaves out another session's record and puts a later record of the
\* log, written while the user was away, before an earlier one
C7_Witness ==
    \E a \in Replays :
        /\ Len(a.items) = 2
        /\ Len(messages) = 3
        /\ a.items[1].id > a.items[2].id
        /\ ~a.items[1].delivered

(* -------------------------------- C8 ---------------------------------- *)
C8_SecondCallChangesNothing ==
    \A ids \in IdLists, first \in Times, second \in Times :
        LET once == markMessagesDelivered(messages, ids, first)
            twice == markMessagesDelivered(once.data, ids, second)
        IN  /\ twice.data = once.data
            /\ ~twice.changed
            /\ Len(once.data) = Len(messages)
            /\ \A i \in 1..Len(messages) :
                  IF messages[i].id \in Range(ids) /\ ~messages[i].delivered
                  THEN once.data[i].delivered /\ once.data[i].deliveredAt = first
                  ELSE once.data[i] = messages[i]
            /\ once.changed <=> once.data # messages

\* C8: marking the same ids a second time changes nothing (a marked record keeps
\* delivered = TRUE and its first deliveredAt); ids that are unknown or already
\* delivered are ignored; and a call that changes no record, an empty id list
\* included, does not write the store.
C8_MarkDeliveredIdempotent ==
    /\ [] C8_SecondCallChangesNothing
    /\ [][(messages' = messages) <=> (writes' = writes)]_vars

\* a stored record was marked by a call, at another time than it was written, and the
\* calls made since wrote nothing
C8_Witness ==
    /\ writes = 1
    /\ \E i \in 1..Len(messages) :
          messages[i].delivered /\ messages[i].deliveredAt # messages[i].timestamp
    /\ \E i \in 1..Len(messages) : ~messages[i].delivered

(* -------------------------------- C9 ---------------------------------- *)
\* tool-call, tool-result, one or more non-empty text-deltas, finish
ScenarioFeed(events) ==
    LET n == Len(events)
    IN  /\ n >= 4
        /\ events[1].type = "tool-call"
        /\ events[2].type = "tool-result"
        /\ \A k \in 3..(n - 1) : events[k].type = "text-delta" /\ events[k].arg # ""
        /\ events[n].type = "finish"

\* the notifications the scenario asks for, in the order of the feed
RECURSIVE Chunks(_, _)
Chunks(run, events) ==
    IF events = <<>> THEN <<>>
    ELSE (IF Head(events).type = "text-delta"
          THEN <<Note("ai_chunk", run.messageId, run.sessionId, Head(events).arg)>>
          ELSE <<>>) \o Chunks(run, Tail(events))

Expected(run) ==
    <<Note("ai_started", run.messageId, run.sessionId, ""),
      Note("ai_tool_call", 0, run.sessionId, run.events[1].arg),
      Note("ai_tool_result", 0, run.sessionId, run.events[2].arg)>>
    \o Chunks(run, run.events)
    \o <<Note("ai_complete", run.messageId, run.sessionId, run.textSoFar)>>

\* C9: a finished run whose user had a presence entry at every step and whose feed
\* was tool-call, tool-result, one or more non-empty text-deltas, finish has emitted
\* ai_started, ai_tool_call, ai_tool_result, one ai_chunk per delta in feed order and
\* then ai_complete, the first and the last under the same id; and the log holds its
\* ai record under that id and its two system records, all of them delivered.
C9_OnlineScenario ==
    \A r \in RunIds :
        LET run == streams[r]
        IN  (run.present /\ run.pc = "finished" /\ ScenarioFeed(run.events)) =>
              /\ Len(run.sent) = Len(Expected(run))
              /\ \A k \in 1..Len(run.sent) :
                    /\ run.sent[k].to # NoSocket
                    /\ [run.sent[k] EXCEPT !.to = NoSocket] = Expected(run)[k]
              /\ FinalRecordKept(run)
              /\ ToolRecordsKept(run)
              /\ Len(run.made) = 3
              /\ Flags(run.made) = {TRUE}
              /\ Cardinality(Stored(run.messageId) \cap AiRecords) = 1

C9_Witness ==
    \E r \in RunIds :
        /\ streams[r].present
        /\ streams[r].pc = "finished"
        /\ ScenarioFeed(streams[r].events)
        /\ Len(streams[r].events) >= 5
        /\ streams[r].events[3].arg # streams[r].events[4].arg

(* -------------------------------- C11 --------------------------------- *)
Owns(dir, userId, sessionId) ==
    \E i \in 1..Len(dir) : dir[i].id = sessionId /\ dir[i].userId = userId

\* C11: after a registered user's ai_send with a session id for which the user has
\* no SessionItem, the directory holds a SessionItem with that id owned by the user:
\* every session a run was started for is in the directory.
C11_SendCreatesSession ==
    \A r \in RunIds : Owns(sessions, streams[r].userId, streams[r].sessionId)

(* -------------------------------- C12 --------------------------------- *)
\* C12: once a connection has processed a register intent with a non-empty userId,
\* a later register intent on it, with the same or another userId, changes neither
\* the connection's declared identity nor the presence registry.
C12_OneIdentityPerConnection ==
    [][\A c \in 1..Len(sockets), userId \in Users :
          (sockets[c].userId # "" /\ Register(c, userId))
              => UNCHANGED <<sockets, onlineUsers>>]_vars

(* -------------------------------- C13 --------------------------------- *)
\* C13: when user B issues session_create with a session id that already identifies
\* a SessionItem of another user A, A's item (owner, title, createdAt, updatedAt) is
\* left as it is, still in A's list, and B gets an item of their own.
C13_UpsertIsPerUser ==
    [][\A c \in 1..Len(sockets), i \in 1..Len(sessions) :
          LET B == sockets[c].userId
          IN  (/\ B \notin {"", sessions[i].userId}
               /\ \E title \in Titles, now \in Times :
                     SessionCreate(c, sessions[i].id, title, now))
              => /\ sessions[i] \in Range(getSessionsForUser(sessions', sessions[i].userId))
                 /\ Owns(sessions', B, sessions[i].id)]_vars

(* -------------------------------- C14 --------------------------------- *)
\* the texts of the notes of one type, and of the feed events of one type, in order
RECURSIVE TextsOf(_, _)
TextsOf(notes, type) ==
    IF notes = <<>> THEN <<>>
    ELSE (IF Head(notes).type = type THEN <<Head(notes).text>> ELSE <<>>)
         \o TextsOf(Tail(notes), type)

RECURSIVE ArgsOf(_, _)
ArgsOf(events, type) ==
    IF events = <<>> THEN <<>>
    ELSE (IF Head(events).type = type THEN <<Head(events).arg>> ELSE <<>>)
         \o ArgsOf(Tail(events), type)

\* a is b with some of its elements left out
RECURSIVE IsSubsequence(_, _)
IsSubsequence(a, b) ==
    IF a = <<>> THEN TRUE
    ELSE IF b = <<>> THEN FALSE
    ELSE IF Head(a) = Head(b) THEN IsSubsequence(Tail(a), Tail(b))
    ELSE IsSubsequence(a, Tail(b))

C14_ChunksFollowTheFeed ==
    \A r \in RunIds :
        /\ IsSubsequence(TextsOf(streams[r].sent, "ai_chunk"),
                         ArgsOf(streams[r].events, "text-delta"))
        /\ \A k \in 1..Len(streams[r].sent) :
              streams[r].sent[k].type = "ai_chunk" =>
                  /\ streams[r].sent[k].id = streams[r].messageId
                  /\ streams[r].sent[k].sessionId = streams[r].sessionId
                  /\ streams[r].sent[k].text # ""

\* a step in which run r receives a text-delta: it is forwarded, alone and at once,
\* exactly if it is non-empty and the user has a presence entry
C14_ForwardsEachDelta ==
    \A r \in RunIds :
        LET run == streams[r]
            sid == onlineUsers[run.userId]
        IN  \A delta \in Deltas :
                streams'[r].events = Append(run.events, Event("text-delta", delta)) =>
                    IF delta # "" /\ sid # NoSocket
                    THEN streams'[r].sent =
                            Append(run.sent, [Note("ai_chunk", run.messageId,
                                                   run.sessionId, delta) EXCEPT !.to = sid])
                    ELSE streams'[r].sent = run.sent

\* C14: the ai_chunk deltas a run emits under its artifact id are a subsequence, in
\* the same order, of the text-deltas it received: one notification per forwarded
\* delta, nothing reordered or merged, and every non-empty delta received while the
\* user has a presence entry is forwarded.
C14_ChunksInFeedOrder ==
    /\ [] C14_ChunksFollowTheFeed
    /\ [][C14_ForwardsEachDelta]_vars

\* a run that got "a" while its user was away and "b" after the user came back
C14_Witness ==
    \E r \in RunIds :
        /\ ArgsOf(streams[r].events, "text-delta") = <<"a", "b">>
        /\ TextsOf(streams[r].sent, "ai_chunk") = <<"b">>

(* -------------------------------- C15 --------------------------------- *)
WireOf(type) == IF type = "tool-call" THEN "ai_tool_call" ELSE "ai_tool_result"
BodyOf(type) == IF type = "tool-call" THEN "tool_use" ELSE "tool_result"

\* a step in which run r receives a tool-call or tool-result: one system record is
\* appended, and it is delivered and announced exactly if the user has an entry
C15_ToolStep ==
    \A r \in RunIds, type \in {"tool-call", "tool-result"}, toolName \in Tools :
        LET run == streams[r]
            sid == onlineUsers[run.userId]
            n == Len(messages)
        IN  streams'[r].events = Append(run.events, Event(type, toolName)) =>
              /\ Len(messages') = n + 1
              /\ \A i \in 1..n : messages'[i] = messages[i]
              /\ messages'[n + 1].role = "system"
              /\ messages'[n + 1].to = run.userId
              /\ messages'[n + 1].sessionId = run.sessionId
              /\ messages'[n + 1].message = [type |-> BodyOf(type), content |-> toolName]
              /\ messages'[n + 1].delivered = (sid # NoSocket)
              /\ (sid = NoSocket) => messages'[n + 1].deliveredAt = Undefined
              /\ streams'[r].sent =
                    IF sid # NoSocket
                    THEN Append(run.sent, [Note(WireOf(type), 0, run.sessionId, toolName)
                                              EXCEPT !.to = sid])
                    ELSE run.sent

\* the tool events of a run whose system record is delivered, as the notifications
\* that announce them
RECURSIVE Announced(_, _)
Announced(events, ids) ==
    IF events = <<>> THEN <<>>
    ELSE (IF Flags(<<Head(ids)>>) = {TRUE}
          THEN <<<<WireOf(Head(events).type), Head(events).arg>>>>
          ELSE <<>>) \o Announced(Tail(events), Tail(ids))

RECURSIVE ToolNotes(_)
ToolNotes(notes) ==
    IF notes = <<>> THEN <<>>
    ELSE (IF Head(notes).type \in {"ai_tool_call", "ai_tool_result"}
          THEN <<<<Head(notes).type, Head(notes).text>>>>
          ELSE <<>>) \o ToolNotes(Tail(notes))

\* each tool event of a run has its one system record, and the delivered ones are
\* those a notification was emitted for
C15_DeliveredIffAnnounced ==
    \A r \in RunIds :
        /\ ToolRecordsKept(streams[r])
        /\ Announced(ToolEvents(streams[r]), ToolIds(streams[r]))
              = ToolNotes(streams[r].sent)

\* C15: each tool-call or tool-result event appends exactly one system record
\* (tool_use or tool_result); if and only if the owning user has a presence entry at
\* that moment, one matching ai_tool_call or ai_tool_result is emitted and the
\* record is marked delivered in the same step; so a record a run created is
\* delivered exactly when a notification for it was emitted.
C15_ToolRecordPerEvent ==
    /\ [] C15_DeliveredIffAnnounced
    /\ [][C15_ToolStep]_vars

\* a run whose tool call was announced and whose tool result, received after the
\* user had left, was not
C15_Witness ==
    \E r \in RunIds :
        /\ Len(ToolIds(streams[r])) = 2
        /\ streams[r].events[1].type = "tool-call"
        /\ streams[r].events[2].type = "tool-result"
        /\ Flags(<<ToolIds(streams[r])[1]>>) = {TRUE}
        /\ Flags(<<ToolIds(streams[r])[2]>>) = {FALSE}

(* -------------------------------- C16 --------------------------------- *)
\* C16: a valid ai_send appends the user's message (role user, delivered), then
\* bumps the session's updatedAt, and only then starts the run, so the run's
\* ai_started is emitted after the bump; the handler does not wait for the run.
C16_AppendBumpThenStart ==
    calls # <<>> =>
        LET run == streams[Len(streams)]
        IN  /\ calls[1] = "addMessage"
            /\ \E i \in 1..Len(messages) :
                  /\ messages[i].role = "user"
                  /\ messages[i].delivered
                  /\ messages[i].to = run.userId
                  /\ messages[i].sessionId = run.sessionId
                  /\ messages[i].message.content = run.input
            /\ \A i, j \in 1..Len(calls) :
                  (calls[i] = "upsertSession" /\ calls[j] = "startAIStream") => i < j
            /\ run.pc = "invoking"

(* -------------------------------- C17 --------------------------------- *)
RECURSIVE Concat(_)
Concat(texts) == IF texts = <<>> THEN "" ELSE Head(texts) \o Concat(Tail(texts))

\* the text-deltas a run received, joined in feed order
Buffered(run) == Concat(ArgsOf(run.events, "text-delta"))

\* until response.text resolves the buffer holds every delta received; afterwards the
\* ai record and the ai_complete notification, if there is one, carry the same text
C17_BufferAndRecord ==
    \A r \in RunIds :
        LET run == streams[r]
        IN  /\ run.pc \in {"invoking", "streaming", "resolving"} =>
                  run.textSoFar = Buffered(run)
            /\ run.pc = "finished" =>
                  /\ \A i \in Stored(run.messageId) \cap AiRecords :
                        messages[i].message = [type |-> "text", content |-> run.textSoFar]
                  /\ \A k \in 1..Len(run.sent) :
                        run.sent[k].type = "ai_complete" => run.sent[k].text = run.textSoFar

\* the step in which response.text resolves with finalText
C17_FinalizeStep ==
    \A r \in RunIds, finalText \in FinalTexts, now \in Times :
        Finalize(r, finalText, now) =>
            /\ Len(messages') = Len(messages) + 1
            /\ messages'[Len(messages')].id = streams[r].messageId
            /\ messages'[Len(messages')].message.content =
                  IF finalText # "" THEN finalText ELSE Buffered(streams[r])

\* C17: the content of a run's ai record is the engine's final text when that is
\* non-empty, and otherwise the concatenation in feed order of all text-deltas the
\* run received, whether or not the user was present; the text of ai_complete, when
\* it is emitted, equals the persisted content.
C17_FinalTextOrBuffer ==
    /\ [] C17_BufferAndRecord
    /\ [][C17_FinalizeStep]_vars

\* the engine gave no final text: the record and ai_complete carry "ab", though "a"
\* arrived while the user was away
C17_Witness ==
    \E r \in RunIds :
        /\ streams[r].pc = "finished"
        /\ ArgsOf(streams[r].events, "text-delta") = <<"a", "b">>
        /\ TextsOf(streams[r].sent, "ai_chunk") = <<"b">>
        /\ TextsOf(streams[r].sent, "ai_complete") = <<"ab">>
        /\ \E i \in Stored(streams[r].messageId) : messages[i].message.content = "ab"

(* -------------------------------- C18 --------------------------------- *)
\* an intent of connection c that lacks a required field: register without userId;
\* session_create, session_open or ai_send without sessionId or on a connection
\* that has not registered; ai_send without text
DroppedIntent(c) ==
    \/ Register(c, "")
    \/ \E sessionId \in Sessions \cup {""} :
          /\ sockets[c].userId = "" \/ sessionId = ""
          /\ \/ SessionOpen(c, sessionId)
             \/ \E title \in Titles, now \in Times : SessionCreate(c, sessionId, title, now)
             \/ \E text \in Texts, now \in Times : AiSend(c, sessionId, text, now)
    \/ \E sessionId \in Sessions \cup {""}, now \in Times : AiSend(c, sessionId, "", now)

\* nothing the server keeps names an empty user, session or text
C18_NoEmptyField ==
    /\ \A i \in 1..Len(sessions) : sessions[i].id # "" /\ sessions[i].userId # ""
    /\ \A i \in 1..Len(messages) : messages[i].to # "" /\ messages[i].sessionId # ""
    /\ \A r \in RunIds :
          streams[r].userId # "" /\ streams[r].sessionId # "" /\ streams[r].input # ""
    /\ \A a \in Range(reply) :
          sockets[a.to].userId # "" /\ (a.type = "session_messages" => a.sessionId # "")

\* C18: an inbound intent that lacks a required non-empty field (register without
\* userId; session_create, session_open or ai_send without sessionId; ai_send
\* without text; any of those three on a connection that has not registered) leaves
\* the log, the directory and the presence registry as they are, emits no
\* notification and starts no run.
C18_MalformedIntentDropped ==
    /\ [] C18_NoEmptyField
    /\ [][\A c \in 1..Len(sockets) :
            DroppedIntent(c) =>
                /\ reply' = <<>>
                /\ UNCHANGED <<messages, sessions, writes, onlineUsers, sockets,
                               streams, uuids>>]_vars

\* the state a registered connection is in after register alone, but for the
\* session_list that register emitted: an intent was dropped since
C18_Witness ==
    /\ Len(sockets) = 1
    /\ sockets[1].open
    /\ sockets[1].userId # ""
    /\ messages = <<>>
    /\ sessions = <<>>
    /\ streams = <<>>
    /\ reply = <<>>

(* -------------------------------- C19 --------------------------------- *)
Lists == {a \in Range(reply) : a.type = "session_list"}

Item(id, userId, updatedAt) ==
    [id |-> id, userId |-> userId, title |-> "T", createdAt |-> 0, updatedAt |-> updatedAt]

\* sessions updated at 5, 20 and 10 are listed as 20, 10, 5
C19_Example ==
    getSessionsForUser(<<Item("s1", "u1", 5), Item("s2", "u1", 20), Item("s3", "u2", 7),
                         Item("s4", "u1", 10)>>, "u1")
        = <<Item("s2", "u1", 20), Item("s4", "u1", 10), Item("s1", "u1", 5)>>

\* C19: every session_list emitted to a connection of user U, on register and after
\* session_create, holds exactly the SessionItems whose userId is U, ordered by
\* updatedAt descending; e.g. updatedAt 5, 20, 10 is listed as 20, 10, 5.
C19_ListIsTheUsersByUpdate ==
    /\ C19_Example
    /\ \A a \in Lists :
          LET mine == {i \in 1..Len(sessions) : sessions[i].userId = sockets[a.to].userId}
          IN  /\ Len(a.items) = Cardinality(mine)
              /\ \A i \in mine : \E k \in 1..Len(a.items) : a.items[k] = sessions[i]
              /\ \A k \in 1..Len(a.items) : \E i \in mine : a.items[k] = sessions[i]
              /\ \A k \in 1..(Len(a.items) - 1) :
                    a.items[k].updatedAt >= a.items[k + 1].updatedAt

\* a list of two sessions in which the one stored second, updated later, comes first
C19_Witness ==
    \E a \in Lists :
        /\ Len(a.items) = 2
        /\ a.items[1] = sessions[2]
        /\ a.items[1].updatedAt > a.items[2].updatedAt

(* -------------------------------- C20 --------------------------------- *)
\* C20: in every reachable state each presence entry userId -> connection refers to
\* a connection that is still connected and whose declared identity is that userId
\* (so a run's notifications go only to a connection of its user, and no record is
\* marked delivered for an emission to a closed or a foreign connection).
C20_PresenceEntryIsLiveAndOwn ==
    \A u \in Users :
        onlineUsers[u] # NoSocket =>
            /\ sockets[onlineUsers[u]].open
            /\ sockets[onlineUsers[u]].userId = u

(* -------------------------------- C21 --------------------------------- *)
\* a step leaves every record of the log as it is, delivered flag included, and a
\* step in which no run starts or moves (register, session_create, session_open,
\* disconnect, a dropped intent) leaves the whole log as it is
C21_Step ==
    /\ Len(messages') >= Len(messages)
    /\ \A i \in 1..Len(messages) : messages'[i] = messages[i]
    /\ streams' = streams => (messages' = messages /\ writes' = writes)

\* C21: the delivered flag of a record is settled in the step that creates it and
\* never changes afterwards: register, session_create, session_open and disconnect
\* leave the log unchanged, so a record written while the user had no presence entry
\* stays delivered = FALSE, also after the user reconnects, gets it in a replay, or is
\* online when a later event of the same run is emitted.
C21_DeliveredIsSettledAtCreation == [][C21_Step]_vars

\* the tool call of a run was stored while the user was away; the user came back,
\* was sent the tool result, and has just been replayed the session: the record of
\* the tool call is in the replay and still not delivered
C21_Witness ==
    \E a \in Replays, r \in RunIds :
        /\ Len(ToolIds(streams[r])) = 2
        /\ Flags(<<ToolIds(streams[r])[1]>>) = {FALSE}
        /\ Flags(<<ToolIds(streams[r])[2]>>) = {TRUE}
        /\ \E k \in 1..Len(a.items) :
              a.items[k].id = ToolIds(streams[r])[1] /\ ~a.items[k].delivered

(* -------------------------------- C22 --------------------------------- *)
\* the places in what a run has emitted that hold a notification of this type
Places(run, type) == {k \in 1..Len(run.sent) : run.sent[k].type = type}

\* C22: for every artifact id, whatever connects and disconnects happen during the
\* run, at most one ai_started and at most one ai_complete are emitted, ai_started
\* (if emitted) comes before every other notification that carries the id, no
\* ai_chunk with the id comes after its ai_complete, and ai_complete is emitted only
\* once the run's ai record is in the log.
C22_StartedFirstCompleteLast ==
    \A r \in RunIds :
        LET run == streams[r]
            carrying == {k \in 1..Len(run.sent) : run.sent[k].id = run.messageId}
        IN  /\ Cardinality(Places(run, "ai_started")) <= 1
            /\ Cardinality(Places(run, "ai_complete")) <= 1
            /\ \A k \in Places(run, "ai_started") : \A j \in carrying \ {k} : k < j
            /\ \A k \in Places(run, "ai_complete") : \A j \in Places(run, "ai_chunk") : j < k
            /\ Places(run, "ai_complete") # {} =>
                  Stored(run.messageId) \cap AiRecords # {}
            /\ \A k \in Places(run, "ai_started") \cup Places(run, "ai_chunk")
                          \cup Places(run, "ai_complete") : k \in carrying
            /\ \A q \in RunIds : q # r => streams[q].messageId # run.messageId

\* a finished run that announced its start on one connection, its chunk and its
\* completion on another
C22_Witness ==
    \E r \in RunIds :
        LET run == streams[r]
        IN  /\ Places(run, "ai_started") = {1}
            /\ Places(run, "ai_chunk") # {}
            /\ Places(run, "ai_complete") = {Len(run.sent)}
            /\ run.sent[1].to # run.sent[Len(run.sent)].to

====
